---- MODULE Spec2Model ----
(***************************************************************************)
(* A model of the metrics core: the Meter actor (a goroutine that owns the *)
(* count, three EWMAs and the cached meterV and serves the in, out and     *)
(* ticker channels) and the two Sample reservoirs (uniformSample and       *)
(* expDecaySample, both behind a sync.RWMutex).                            *)
(***************************************************************************)
EXTENDS Integers, Sequences, FiniteSets, Bags, TLC

(***************************************************************************)
(* Bounds of the model.                                                    *)
(***************************************************************************)
MaxMarks == 2
MaxTicks == 2
MaxCap == 2
MaxUpdates == 3
MaxClears == 1
MaxClockSteps == 2
MaxDraw == 1
MaxTimerCalls == 3
MaxRegCalls == 3
MaxDecayCap == 4
MaxDecayUpdates == 6
MaxWideMarks == 3
MaxWideSeconds == 6

(***************************************************************************)
(* Program constants.                                                      *)
(***************************************************************************)
\* time.NewTicker(5 * time.Second), TickDuration: the tick period in seconds.
TickSeconds == 5
\* const rescaleThreshold = 1e9 * 60 * 60 nanoseconds: an hour, in seconds.
rescaleThreshold == 3600
\* float64(Duration) counts nanoseconds.
NsPerSec == 1000000000
\* math.Exp(x) is 0.0 for x below about -745.13; with the alpha of NewTimer,
\* 0.015, that is 49675 units of 1/alpha.
ExpUnderflow == 49675
\* math.Exp(x) is +Inf for x above about 709.78: 47319 units of 1/alpha.
ExpOverflow == 47319
\* The values offered to a sample.
SampleValues == {1, 2}

\* The goroutines that call the meter.
Callers == {"c1", "c2"}
\* Arguments of Mark(n): the no-op mark, one event, the three of the tests.
MarkArgs == {0, 1, 3}

VARIABLES
    \* ---- Meter: the arbiter goroutine's locals
    mv,        \* the cached meterV
    a1, a5, a15, \* the three EWMAs
    arbiter,   \* "select": at the select of the for loop; "exited": left it
    \* ---- Meter: ticker and clock
    mNow,      \* whole seconds between t and now (time.Since(t) lies above it)
    tickerC,   \* number of ticks buffered in ticker.C (capacity 1)
    \* ---- Meter: the callers, blocked on the unbuffered channels in and out
    cpc,       \* caller -> "idle" | "mark" | "read" | "marked" | "got"
    carg,      \* caller -> the n of its Mark(n)
    cres,      \* caller -> the meterV it received from m.out
    \* ---- Meter: history (for stating the properties only)
    hist,      \* the marks and ticks the arbiter has serviced, in order
    cstart,    \* caller -> sum of the returned marks when its read started
    cquiet     \* caller -> no Mark was in flight during its read

meterVars == <<mv, a1, a5, a15, arbiter, mNow, tickerC, cpc, carg, cres,
               hist, cstart, cquiet>>

VARIABLES
    \* ---- Sample: the fields of uniformSample / expDecaySample
    kind,          \* "uniform" | "expdecay"
    reservoirSize, \* s.reservoirSize, also the capacity of s.values
    count,         \* uniformSample.count
    values,        \* s.values: int64s (uniform), a heap of [k, v] (expdecay)
    t0, t1,        \* expDecaySample.t0, .t1, in seconds
    \* ---- Sample: environment
    sNow,          \* time.Now(), in seconds
    sSteps,        \* how many times the clock has moved
    panicked,      \* a run-time panic has ended the program
    \* ---- Sample: history (for stating the properties only)
    offered,       \* the values offered since creation or the last Clear
    last,          \* the last operation: its name, inputs and the state before
    nClears        \* how many times Clear has run

sampleVars == <<kind, reservoirSize, count, values, t0, t1, sNow, sSteps,
                panicked, offered, last, nClears>>

VARIABLES
    \* ---- Sample under concurrent callers: the lock and the goroutines
    mutex,     \* s.mutex: [w |-> the writer holding it or "none",
               \*           r |-> the readers holding it]
    ppc,       \* goroutine -> where it is in its call
    plv,       \* goroutine -> its call's arguments and locals
    pobs,      \* goroutine -> what its Size() or Values() read
    \* ---- history (for stating the properties only)
    committed, \* s.values as the last completed Update or Clear left it
    nUpdates   \* how many times Update has been called

concVars == <<mutex, ppc, plv, pobs, committed, nUpdates>>

VARIABLES
    \* ---- Timer: its Histogram, and the goroutines that call it (its Meter is
    \* the meter above)
    hValues,   \* the values the Histogram has been fed, in order
    tpc,       \* goroutine -> where it is in its call of the timer
    targ,      \* goroutine -> its call: the method and the duration
    tobs,      \* what the reader has read: the Histogram's and the Meter's count
    \* ---- history (for stating the properties only)
    tDone      \* how many calls of Update, UpdateSince and Time have returned

timerVars == <<hValues, tpc, targ, tobs, tDone>>

VARIABLES
    \* ---- Registry: the fields of registry, and the goroutines that call it
    metrics,   \* r.metrics: name -> metric, Nil for a name that is not a key
    rmutex,    \* r.mutex: the goroutine holding it, or "none"
    rpc,       \* goroutine -> where it is in its call of the registry
    rlv,       \* goroutine -> its call's arguments and locals
    \* ---- history (for stating the properties only)
    rlog,      \* the Register and Unregister calls, in the order they took effect
    rlast,     \* the last of them, with the name table before it
    rCalls     \* how many calls of the registry have been made

regVars == <<metrics, rmutex, rpc, rlv, rlog, rlast, rCalls>>

VARIABLES
    \* ---- Meter arbiter with its int64 count at full width
    wCount,    \* mv.count, an int64 as 8 bytes, lowest first
    wMean,     \* mv.rateMean: [num |-> the int64 converted by float64(...),
               \*               sec |-> time.Since(t) in seconds]
    wElapsed,  \* time.Since(t), in seconds
    \* ---- history (for stating the properties only)
    wLast,     \* the last case the arbiter serviced, its n and mv.count before
    wMarks     \* how many marks the arbiter has serviced

wideVars == <<wCount, wMean, wElapsed, wLast, wMarks>>

restVars == <<timerVars, regVars, wideVars>>

vars == <<meterVars, sampleVars, concVars, restVars>>



(***************************************************************************)
(* Rates.  The code computes rates in float64; the model keeps each rate   *)
(* as the exact term it was computed from, so that two rates are equal in  *)
(* the model only if the code computed them the same way.                  *)
(*   An EWMA rate is the sequence of folding steps applied to 0.0:         *)
(*   [op |-> "set", num, den] sets the rate to num/den (the cold start),   *)
(*   [op |-> "blend", num, den] is rate += alpha * (num/den - rate).       *)
(*   The mean rate is count over elapsed time: num is the count and den    *)
(*   the whole seconds of the clock reading the divisor was taken from.    *)
(*   The divisor itself, time.Since(t) in nanoseconds, is positive: t is   *)
(*   read before the loop and the monotonic clock has moved on by the time *)
(*   a case has been serviced.                                             *)
(***************************************************************************)
ZeroRate(w) == [window |-> w, terms |-> <<>>]
ZeroMean == [num |-> 0, den |-> 1]

\* alpha lies strictly between 0 and 1, so a folded rate is 0 exactly when
\* every instantaneous rate folded into it was 0.
IsZeroRate(r) == \A i \in DOMAIN r.terms : r.terms[i].num = 0
IsZeroMean(r) == r.num = 0

(***************************************************************************)
(* EWMA (ewma.go), as the specification describes it in sections 3 and     *)
(* 4.4.                                                                    *)
(***************************************************************************)
NewEWMA(w) == [window |-> w, init |-> FALSE, rate |-> <<>>, uncounted |-> 0]

\* Update(n): add n to the uncounted bucket; the rate is not changed.
EWMAUpdate(a, n) == [a EXCEPT !.uncounted = @ + n]

\* Tick(): fold the bucket's instantaneous rate into the rate (on the first
\* tick: set the rate to it) and zero the bucket.
EWMATick(a) ==
    LET inst == [num |-> a.uncounted, den |-> TickSeconds]
    IN  [a EXCEPT !.rate = IF a.init
                           THEN Append(@, [op |-> "blend", num |-> inst.num,
                                           den |-> inst.den])
                           ELSE << [op |-> "set", num |-> inst.num,
                                    den |-> inst.den] >>,
                  !.init = TRUE,
                  !.uncounted = 0]

\* Rate(): the current rate, in events per second.
EWMARate(a) == [window |-> a.window, terms |-> a.rate]

(***************************************************************************)
(* Meter.                                                                  *)
(***************************************************************************)
\* var mv meterV: the zero value.
ZeroMeterV == [count |-> 0, rate1 |-> ZeroRate(1), rate5 |-> ZeroRate(5),
               rate15 |-> ZeroRate(15), rateMean |-> ZeroMean]

\* float64(1e9*mv.count) / float64(time.Since(t)), in events per second.
RateMeanOf(cnt, elapsed) == [num |-> cnt, den |-> elapsed]

\* set(): recompute the rates of the cached meterV.
set(m, e1, e5, e15, elapsed) ==
    [m EXCEPT !.rate1 = EWMARate(e1),
              !.rate5 = EWMARate(e5),
              !.rate15 = EWMARate(e15),
              !.rateMean = RateMeanOf(m.count, elapsed)]

\* Mutant: the mark overwrites the count.
MarkCountLost(cnt, n) == n

\* mv.count += n
MarkCount(cnt, n) == cnt + n

\* Mutant: the mark case without its set().
MarkServicedNoSet(m, e1, e5, e15, n, elapsed) ==
    [m EXCEPT !.count = MarkCount(@, n)]

\* The meterV after the mark case of the select.
MarkServiced(m, e1, e5, e15, n, elapsed) ==
    set([m EXCEPT !.count = MarkCount(@, n)], e1, e5, e15, elapsed)

\* Mutant: the ticker case without its set().
TickServicedNoSet(m, e1, e5, e15, elapsed) == m

\* The meterV after the ticker case of the select.
TickServiced(m, e1, e5, e15, elapsed) == set(m, e1, e5, e15, elapsed)

\* Mutant: the arbiter returns after its first case.
ArbiterLoopOnce == "exited"

\* for { select { ... } }: after a case the arbiter is back at the select.
ArbiterLoop == "select"

\* Mutant: the mark case also ticks the EWMA.
MarkEWMATicks(a, n) == EWMATick(EWMAUpdate(a, n))

\* a1.Update(n), a5.Update(n), a15.Update(n) of the mark case.
MarkEWMA(a, n) == EWMAUpdate(a, n)

\* The value sent by "case m.out <- mv".
OutValue == mv

SumMarks(h) ==
    LET RECURSIVE Sum(_)
        Sum(i) == IF i = 0 THEN 0
                  ELSE Sum(i - 1) + (IF h[i].ev = "mark" THEN h[i].n ELSE 0)
    IN  Sum(Len(h))

NumMarks(h) == Cardinality({i \in DOMAIN h : h[i].ev = "mark"})
NumTicks(h) == Cardinality({i \in DOMAIN h : h[i].ev = "tick"})
MarksInFlight == {c \in Callers : cpc[c] = "mark"}
\* A caller whose channel operation has completed goes on (Return) before
\* anything else is looked at: its return is a step of its own goroutine only.
NoneReturning == \A c \in Callers : cpc[c] \notin {"marked", "got"}

\* NewMeter(): the channels, the ticker and the arbiter goroutine.
MeterInit ==
    /\ mv = ZeroMeterV
    /\ a1 = NewEWMA(1) /\ a5 = NewEWMA(5) /\ a15 = NewEWMA(15)
    /\ arbiter = "select"
    /\ mNow = 0
    /\ tickerC = 0
    /\ cpc = [c \in Callers |-> "idle"]
    /\ carg = [c \in Callers |-> 0]
    /\ cres = [c \in Callers |-> ZeroMeterV]
    /\ hist = <<>>
    /\ cstart = [c \in Callers |-> 0]
    /\ cquiet = [c \in Callers |-> TRUE]

\* m.Mark(n): the caller blocks sending n on m.in.
CallMark(c, n) ==
    /\ NoneReturning
    /\ cpc[c] = "idle"
    /\ NumMarks(hist) + Cardinality(MarksInFlight) < MaxMarks
    /\ cpc' = [cpc EXCEPT ![c] = "mark"]
    /\ carg' = [carg EXCEPT ![c] = n]
    /\ cquiet' = [d \in Callers |-> IF cpc[d] = "read" THEN FALSE ELSE cquiet[d]]
    /\ UNCHANGED <<mv, a1, a5, a15, arbiter, mNow, tickerC, cres, hist,
                   cstart>>
    /\ UNCHANGED <<sampleVars, concVars, restVars>>

\* m.Count(), m.Rate1(), ...: the caller blocks receiving from m.out.
CallRead(c) ==
    /\ NoneReturning
    /\ cpc[c] = "idle"
    /\ cpc' = [cpc EXCEPT ![c] = "read"]
    /\ cstart' = [cstart EXCEPT ![c] = SumMarks(hist)]
    /\ cquiet' = [cquiet EXCEPT ![c] = MarksInFlight = {}]
    /\ UNCHANGED <<mv, a1, a5, a15, arbiter, mNow, tickerC, carg, cres, hist>>
    /\ UNCHANGED <<sampleVars, concVars, restVars>>

\* case n := <-m.in
ArbiterMark(c) ==
    /\ NoneReturning
    /\ arbiter = "select"
    /\ cpc[c] = "mark"
    /\ a1' = MarkEWMA(a1, carg[c])
    /\ a5' = MarkEWMA(a5, carg[c])
    /\ a15' = MarkEWMA(a15, carg[c])
    /\ mv' = MarkServiced(mv, a1', a5', a15', carg[c], mNow)
    /\ arbiter' = ArbiterLoop
    /\ cpc' = [cpc EXCEPT ![c] = "marked"]
    /\ hist' = Append(hist, [ev |-> "mark", n |-> carg[c]])
    /\ UNCHANGED <<mNow, tickerC, carg, cres, cstart, cquiet>>
    /\ UNCHANGED <<sampleVars, concVars, restVars>>

\* case m.out <- mv
ArbiterOut(c) ==
    /\ NoneReturning
    /\ arbiter = "select"
    /\ cpc[c] = "read"
    /\ cres' = [cres EXCEPT ![c] = OutValue]
    /\ cpc' = [cpc EXCEPT ![c] = "got"]
    /\ arbiter' = ArbiterLoop
    /\ UNCHANGED <<mv, a1, a5, a15, mNow, tickerC, carg, hist, cstart,
                   cquiet>>
    /\ UNCHANGED <<sampleVars, concVars, restVars>>

\* case <-m.ticker.C
ArbiterTick ==
    /\ NoneReturning
    /\ arbiter = "select"
    /\ tickerC = 1
    /\ tickerC' = 0
    /\ a1' = EWMATick(a1)
    /\ a5' = EWMATick(a5)
    /\ a15' = EWMATick(a15)
    /\ mv' = TickServiced(mv, a1', a5', a15', mNow)
    /\ arbiter' = ArbiterLoop
    /\ hist' = Append(hist, [ev |-> "tick", n |-> 0])
    /\ UNCHANGED <<mNow, cpc, carg, cres, cstart, cquiet>>
    /\ UNCHANGED <<sampleVars, concVars, restVars>>

\* The call returns to the caller, which uses the value and goes on.
Return(c) ==
    /\ cpc[c] \in {"marked", "got"}
    /\ cpc' = [cpc EXCEPT ![c] = "idle"]
    /\ carg' = [carg EXCEPT ![c] = 0]
    /\ cres' = [cres EXCEPT ![c] = ZeroMeterV]
    /\ cstart' = [cstart EXCEPT ![c] = 0]
    /\ cquiet' = [cquiet EXCEPT ![c] = TRUE]
    /\ UNCHANGED <<mv, a1, a5, a15, arbiter, mNow, tickerC, hist>>
    /\ UNCHANGED <<sampleVars, concVars, restVars>>

\* A tick period passes: the ticker sends on ticker.C, dropping the tick when
\* the channel's one slot is still full.
MeterClock ==
    /\ NoneReturning
    /\ mNow < MaxTicks * TickSeconds
    /\ mNow' = mNow + TickSeconds
    /\ tickerC' = 1
    /\ UNCHANGED <<mv, a1, a5, a15, arbiter, cpc, carg, cres, hist,
                   cstart, cquiet>>
    /\ UNCHANGED <<sampleVars, concVars, restVars>>

MeterNext ==
    \/ \E c \in Callers, n \in MarkArgs : CallMark(c, n)
    \/ \E c \in Callers : CallRead(c)
    \/ \E c \in Callers : ArbiterMark(c)
    \/ \E c \in Callers : ArbiterOut(c)
    \/ ArbiterTick
    \/ \E c \in Callers : Return(c)
    \/ MeterClock

(***************************************************************************)
(* Samples.  Times are in seconds.  A priority key of the decaying sample, *)
(* exp(alpha * seconds) / u with u = rand.Float64(), is kept by its        *)
(* logarithm in units of 1/alpha: seconds + draw, where draw stands for    *)
(* ln(1/u)/alpha, rounded down.  A key that float64 arithmetic has         *)
(* flushed to 0.0 is the key [zero |-> TRUE]; fp tells a finite key from   *)
(* +Inf and NaN.                                                           *)
(***************************************************************************)
Min(a, b) == IF a < b THEN a ELSE b
Range(f) == {f[i] : i \in DOMAIN f}

\* The float64 values a key can be.
FiniteKey(l) == [zero |-> FALSE, log |-> l, fp |-> "finite"]
ZeroKey == [zero |-> TRUE, log |-> 0, fp |-> "finite"]
InfKey == [zero |-> FALSE, log |-> 0, fp |-> "inf"]
NaNKey == [zero |-> FALSE, log |-> 0, fp |-> "nan"]

\* expDecayIndividualSampleHeap.Less, on the keys: float64's <, which is
\* false whenever one side is NaN.
KeyLess(a, b) ==
    IF a.fp = "nan" \/ b.fp = "nan" THEN FALSE
    ELSE IF a.fp = "inf" THEN FALSE
    ELSE IF b.fp = "inf" THEN TRUE
    ELSE IF a.zero THEN ~b.zero
    ELSE ~b.zero /\ a.log < b.log

\* q.Less(i, j), q.Swap(i, j) with Go's indices from 0.
Less(q, i, j) == KeyLess(q[i + 1].k, q[j + 1].k)
Swap(q, i, j) == [q EXCEPT ![i + 1] = q[j + 1], ![j + 1] = q[i + 1]]

\* container/heap's up(h, j).
RECURSIVE up(_, _)
up(q, j) ==
    LET i == (j - 1) \div 2
    IN  IF j <= 0 \/ i = j \/ ~Less(q, j, i) THEN q
        ELSE up(Swap(q, i, j), i)

\* container/heap's down(h, i, n).
RECURSIVE down(_, _, _)
down(q, i, n) ==
    LET j1 == 2 * i + 1
        j == IF j1 + 1 < n /\ Less(q, j1 + 1, j1) THEN j1 + 1 ELSE j1
    IN  IF j1 >= n THEN q
        ELSE IF ~Less(q, j, i) THEN q
        ELSE down(Swap(q, i, j), j, n)

\* heap.Push(&s.values, x): the method Push reslices q to n+1, which panics
\* beyond the capacity, and stores x; then up.
PushPanics(q, capacity) == Len(q) + 1 > capacity
HeapPush(q, x) == up(Append(q, x), Len(q))

\* heap.Pop(&s.values): Swap(0, n-1), which panics on an empty heap (index
\* -1), down, and the method Pop cuts the last entry off.
PopPanics(q) == Len(q) = 0
HeapPop(q) ==
    LET n == Len(q) - 1
    IN  SubSeq(down(Swap(q, 0, n), 0, n), 1, n)

\* math.Exp(t.Sub(s.t0).Seconds()*s.alpha) / rand.Float64(): +Inf once the
\* quotient is beyond float64's range.
NewKey(seconds, draw) ==
    IF seconds + draw >= ExpOverflow THEN InfKey
    ELSE FiniteKey(seconds + draw)

\* v.k * math.Exp(-s.alpha*float64(s.t0.Sub(t0))): the Duration converted
\* is a number of nanoseconds.  The product is 0.0 once the exponent is
\* below float64's range; the factor itself is 0.0 once its own exponent
\* is, and then +Inf * 0.0 is NaN.  NaN times anything is NaN.
Underflows(log, seconds) == (log + ExpUnderflow) \div NsPerSec < seconds
FactorIsZero(seconds) == ExpUnderflow \div NsPerSec < seconds
ScaleKey(key, seconds) ==
    IF key.fp = "nan" THEN NaNKey
    ELSE IF key.fp = "inf"
    THEN IF FactorIsZero(seconds) THEN NaNKey ELSE InfKey
    ELSE IF key.zero \/ Underflows(key.log, seconds) THEN ZeroKey
    ELSE FiniteKey(key.log - NsPerSec * seconds)

\* Mutant: the rescale leaves out the entries whose key it flushed to 0.0.
RECURSIVE RescaleFromDropping(_, _, _, _)
RescaleFromDropping(new, old, i, seconds) ==
    IF i > Len(old) THEN new
    ELSE LET k == ScaleKey(old[i].k, seconds)
         IN  RescaleFromDropping(IF k.zero THEN new
                                 ELSE HeapPush(new, [k |-> k, v |-> old[i].v]),
                                 old, i + 1, seconds)

\* for _, v := range values { v.k = ...; heap.Push(&s.values, v) }, from
\* entry i of the old heap on.
RECURSIVE RescaleFrom(_, _, _, _)
RescaleFrom(new, old, i, seconds) ==
    IF i > Len(old) THEN new
    ELSE RescaleFrom(HeapPush(new, [k |-> ScaleKey(old[i].k, seconds),
                                    v |-> old[i].v]),
                     old, i + 1, seconds)

\* expDecaySample.Update up to the rescale: the heap after the eviction and
\* the insertion.
ExpPopped(q, k) == IF Len(q) = k THEN HeapPop(q) ELSE q
ExpInserted(q, k, v, seconds, draw) ==
    HeapPush(ExpPopped(q, k), [k |-> NewKey(seconds, draw), v |-> v])
ExpUpdatePanics(q, k) ==
    \/ Len(q) = k /\ PopPanics(q)
    \/ PushPanics(ExpPopped(q, k), k)

\* t.After(s.t1)
RescaleDue(t, deadline) == t > deadline

\* Mutant: the reservoir stops filling one slot early.
UniformUpdateOffByOne(q, k, v, r) ==
    IF Len(q) < k - 1 THEN Append(q, v)
    ELSE IF r < Len(q) THEN [q EXCEPT ![r + 1] = v]
    ELSE q

\* Mutant: a full reservoir always stores, at slot r modulo its size.
UniformUpdateAlways(q, k, v, r) ==
    IF Len(q) < k THEN Append(q, v)
    ELSE IF Len(q) > 0 THEN [q EXCEPT ![(r % Len(q)) + 1] = v]
    ELSE q

\* uniformSample.Update: the values after offering v with s.count already
\* incremented and r = rand.Int63n(s.count).
UniformUpdate(q, k, v, r) ==
    IF Len(q) < k THEN Append(q, v)
    ELSE IF r < Len(q) THEN [q EXCEPT ![r + 1] = v]
    ELSE q

\* The state NewUniformSample / NewExpDecaySample builds, and Clear rebuilds:
\* make(..., 0, reservoirSize) and s.count = 0.
EmptyValues == <<>>
UniformClearCount == 0

\* Mutant: Clear keeps the old epoch.
ClearEpochKept(now) == t0

\* s.t0 = time.Now() and s.t1 = s.t0.Add(rescaleThreshold).
ClearEpoch(now) == now
ClearDeadline(epoch) == epoch + rescaleThreshold

\* Size() and Values().
Size == Len(values)
ValuesOf(q) ==
    IF kind = "uniform" THEN q
    ELSE [i \in 1..Len(q) |-> q[i].v]
Values == ValuesOf(values)

\* What the history keeps of an operation: its name, its inputs, the time
\* and s.values before it; of a decaying sample's Update also the heap after
\* the eviction (popped) and after the insertion (mid), whether it rescaled
\* and s.t0 before it (epoch).
Op(op, v, r, before, t) ==
    [op |-> op, v |-> v, r |-> r, before |-> before, t |-> t,
     popped |-> <<>>, mid |-> <<>>, rescaled |-> FALSE, epoch |-> 0]
NoOp == Op("none", 0, 0, <<>>, 0)

\* The sample is not in use (the meter's specifications).
SampleIdle ==
    /\ kind = "uniform" /\ reservoirSize = 0 /\ count = 0 /\ values = <<>>
    /\ t0 = 0 /\ t1 = 0 /\ sNow = 0 /\ sSteps = 0 /\ panicked = FALSE
    /\ offered = <<>> /\ last = NoOp /\ nClears = 0

\* NewUniformSample(k) or NewExpDecaySample(k, alpha).
SampleInit ==
    /\ kind \in {"uniform", "expdecay"}
    /\ reservoirSize \in 0..MaxCap
    /\ count = 0
    /\ values = EmptyValues
    /\ sNow = 0 /\ sSteps = 0
    /\ t0 = sNow
    /\ t1 = sNow + rescaleThreshold
    /\ panicked = FALSE
    /\ offered = <<>> /\ last = NoOp /\ nClears = 0

\* uniformSample.Update(v)
UniformSampleUpdate(v, r) ==
    /\ kind = "uniform" /\ ~panicked
    /\ Len(offered) < MaxUpdates
    /\ r \in 0..count
    /\ Len(values) < reservoirSize => r = 0
    /\ count' = count + 1
    /\ values' = UniformUpdate(values, reservoirSize, v, r)
    /\ offered' = Append(offered, v)
    /\ last' = Op("Update", v, r, values, sNow)
    /\ UNCHANGED <<kind, reservoirSize, t0, t1, sNow, sSteps, panicked,
                   nClears>>
    /\ UNCHANGED <<meterVars, concVars, restVars>>

\* uniformSample.Clear()
UniformSampleClear ==
    /\ kind = "uniform" /\ ~panicked
    /\ nClears < MaxClears
    /\ count' = UniformClearCount
    /\ values' = EmptyValues
    /\ offered' = <<>>
    /\ nClears' = nClears + 1
    /\ last' = Op("Clear", 0, 0, values, sNow)
    /\ UNCHANGED <<kind, reservoirSize, t0, t1, sNow, sSteps, panicked>>
    /\ UNCHANGED <<meterVars, concVars, restVars>>

\* expDecaySample.Update(v), draw standing for the rand.Float64() drawn
ExpUpdate(v, draw) ==
    /\ kind = "expdecay" /\ ~panicked
    /\ offered' = Append(offered, v)
    /\ IF ExpUpdatePanics(values, reservoirSize)
       THEN /\ panicked' = TRUE
            /\ last' = Op("Update", v, draw, values, sNow)
            /\ UNCHANGED <<values, t0, t1>>
       ELSE LET inserted == ExpInserted(values, reservoirSize, v, sNow - t0,
                                        draw)
            IN  /\ panicked' = FALSE
                /\ last' = [Op("Update", v, draw, values, sNow) EXCEPT
                                !.popped = ExpPopped(values, reservoirSize),
                                !.mid = inserted,
                                !.rescaled = RescaleDue(sNow, t1),
                                !.epoch = t0]
                /\ IF RescaleDue(sNow, t1)
                   THEN /\ values' = RescaleFrom(EmptyValues, inserted, 1,
                                                 sNow - t0)
                        /\ t0' = sNow
                        /\ t1' = ClearDeadline(sNow)
                   ELSE /\ values' = inserted
                        /\ UNCHANGED <<t0, t1>>
    /\ UNCHANGED <<kind, reservoirSize, count, sNow, sSteps, nClears>>
    /\ UNCHANGED <<meterVars, concVars, restVars>>

\* Update on a sample of either kind offered at most MaxUpdates values.
ExpSampleUpdate(v, draw) ==
    /\ Len(offered) < MaxUpdates
    /\ ExpUpdate(v, draw)

\* expDecaySample.Clear()
ExpSampleClear ==
    /\ kind = "expdecay" /\ ~panicked
    /\ nClears < MaxClears
    /\ values' = EmptyValues
    /\ t0' = ClearEpoch(sNow)
    /\ t1' = ClearDeadline(t0')
    /\ offered' = <<>>
    /\ nClears' = nClears + 1
    /\ last' = Op("Clear", 0, 0, values, sNow)
    /\ UNCHANGED <<kind, reservoirSize, count, sNow, sSteps, panicked>>
    /\ UNCHANGED <<meterVars, concVars, restVars>>

\* Time passes: a second, a rescale window, or an idle night.
SampleClock(d) ==
    /\ kind = "expdecay" /\ ~panicked
    /\ sSteps < MaxClockSteps
    /\ sNow' = sNow + d
    /\ sSteps' = sSteps + 1
    /\ UNCHANGED <<kind, reservoirSize, count, values, t0, t1, panicked,
                   offered, last, nClears>>
    /\ UNCHANGED <<meterVars, concVars, restVars>>

\* A decaying sample alone, with a larger reservoir: NewExpDecaySample(k,
\* alpha) with k >= 1, and Updates whose values are numbered as they come.
DecayInit ==
    /\ kind = "expdecay"
    /\ reservoirSize \in 1..MaxDecayCap
    /\ count = 0
    /\ values = EmptyValues
    /\ sNow = 0 /\ sSteps = 0
    /\ t0 = sNow
    /\ t1 = sNow + rescaleThreshold
    /\ panicked = FALSE
    /\ offered = <<>> /\ last = NoOp /\ nClears = 0

DecayUpdate(draw) ==
    /\ Len(offered) < MaxDecayUpdates
    /\ ExpUpdate(Len(offered) + 1, draw)

DecayNext ==
    \/ \E draw \in 0..MaxDraw : DecayUpdate(draw)
    \/ ExpSampleClear
    \/ \E d \in {1, rescaleThreshold, ExpOverflow} : SampleClock(d)

\* A sample of either kind; its clock moves by rescale windows and idle
\* nights only.
SampleNext ==
    \/ \E v \in SampleValues, r \in 0..MaxUpdates : UniformSampleUpdate(v, r)
    \/ UniformSampleClear
    \/ \E v \in SampleValues, draw \in 0..MaxDraw : ExpSampleUpdate(v, draw)
    \/ ExpSampleClear
    \/ \E d \in {rescaleThreshold, ExpOverflow} : SampleClock(d)


(***************************************************************************)
(* Samples under concurrent callers: every method takes s.mutex (Lock in   *)
(* Update and Clear, RLock in Size and Values) and releases it on return;  *)
(* between the two its statements are steps of their own.                  *)
(***************************************************************************)
\* The goroutines that call the sample.
Procs == {"p1", "p2"}
Writing == {"exp_pop", "exp_push", "exp_rescale", "exp_loop", "uni_count",
            "uni_store", "uni_clear_count", "uni_clear_values",
            "exp_clear_values", "exp_clear_t0", "exp_clear_t1", "unlock"}
NoLocals == [op |-> "none", v |-> 0, draw |-> 0, t |-> 0, old |-> <<>>,
             oldT0 |-> 0, i |-> 0]
NoObs == [val |-> 0, com |-> <<>>]

\* s.mutex.Lock() goes through when nobody holds the lock.
LockGuard == mutex.w = "none" /\ mutex.r = {}
\* Mutant: Size and Values do not take the lock.
ReadGuardNone == TRUE
\* s.mutex.RLock() goes through when no writer holds the lock.
ReadGuard == mutex.w = "none"

\* The sample's methods are not being called (the other specifications).
ConcIdle ==
    /\ mutex = [w |-> "none", r |-> {}]
    /\ ppc = [p \in Procs |-> "idle"]
    /\ plv = [p \in Procs |-> NoLocals]
    /\ pobs = [p \in Procs |-> NoObs]
    /\ committed = <<>>
    /\ nUpdates = 0

Goto(p, where) == ppc' = [ppc EXCEPT ![p] = where]

\* The panic ends the program.
Panic ==
    /\ panicked' = TRUE
    /\ UNCHANGED <<kind, reservoirSize, count, values, t0, t1, sNow, sSteps,
                   offered, last, nClears, mutex, ppc, plv, pobs, committed,
                   nUpdates>>

\* s.Update(v) is called and takes the lock: s.mutex.Lock().  draw stands
\* for the rand.Float64() it will draw.
UpdateLock(p, v, draw) ==
    /\ ~panicked /\ ppc[p] = "idle"
    /\ nUpdates < MaxUpdates
    /\ LockGuard
    /\ mutex' = [mutex EXCEPT !.w = p]
    /\ nUpdates' = nUpdates + 1
    /\ plv' = [plv EXCEPT ![p] = [NoLocals EXCEPT !.op = "Update", !.v = v,
                                                  !.draw = draw]]
    /\ Goto(p, IF kind = "uniform" THEN "uni_count" ELSE "exp_pop")
    /\ UNCHANGED <<sampleVars, pobs, committed>>
    /\ UNCHANGED <<meterVars, restVars>>

\* s.Clear() is called and takes the lock: s.mutex.Lock().
ClearLock(p) ==
    /\ ~panicked /\ ppc[p] = "idle"
    /\ nClears < MaxClears
    /\ LockGuard
    /\ mutex' = [mutex EXCEPT !.w = p]
    /\ nClears' = nClears + 1
    /\ plv' = [plv EXCEPT ![p] = [NoLocals EXCEPT !.op = "Clear"]]
    /\ Goto(p, IF kind = "uniform" THEN "uni_clear_count"
               ELSE "exp_clear_values")
    /\ UNCHANGED <<kind, reservoirSize, count, values, t0, t1, sNow, sSteps,
                   panicked, offered, last, pobs, committed, nUpdates>>
    /\ UNCHANGED <<meterVars, restVars>>

\* s.Size() or s.Values() is called and takes the lock: s.mutex.RLock().
ReaderLock(p, op) ==
    /\ ~panicked /\ ppc[p] = "idle"
    /\ ReadGuard
    /\ mutex' = [mutex EXCEPT !.r = @ \cup {p}]
    /\ plv' = [plv EXCEPT ![p] = [NoLocals EXCEPT !.op = op]]
    /\ Goto(p, "read")
    /\ UNCHANGED <<sampleVars, pobs, committed, nUpdates>>
    /\ UNCHANGED <<meterVars, restVars>>

\* if len(s.values) == s.reservoirSize { heap.Pop(&s.values) }
ExpPopStep(p) ==
    /\ ~panicked /\ ppc[p] = "exp_pop"
    /\ IF Len(values) = reservoirSize /\ PopPanics(values)
       THEN Panic
       ELSE /\ values' = ExpPopped(values, reservoirSize)
            /\ Goto(p, "exp_push")
            /\ UNCHANGED <<kind, reservoirSize, count, t0, t1, sNow, sSteps,
                           panicked, offered, last, nClears, mutex, plv, pobs,
                           committed, nUpdates>>
    /\ UNCHANGED <<meterVars, restVars>>

\* t := time.Now(); heap.Push(&s.values, ...); if t.After(s.t1) ...
ExpPushStep(p) ==
    /\ ~panicked /\ ppc[p] = "exp_push"
    /\ IF PushPanics(values, reservoirSize)
       THEN Panic
       ELSE /\ values' = HeapPush(values, [k |-> NewKey(sNow - t0, plv[p].draw),
                                           v |-> plv[p].v])
            /\ plv' = [plv EXCEPT ![p].t = sNow]
            /\ Goto(p, IF RescaleDue(sNow, t1) THEN "exp_rescale" ELSE "unlock")
            /\ UNCHANGED <<kind, reservoirSize, count, t0, t1, sNow, sSteps,
                           panicked, offered, last, nClears, mutex, pobs,
                           committed, nUpdates>>
    /\ UNCHANGED <<meterVars, restVars>>

\* values := s.values; t0 := s.t0; s.values = make(...); s.t0 = t;
\* s.t1 = s.t0.Add(rescaleThreshold)
ExpRescaleStep(p) ==
    /\ ~panicked /\ ppc[p] = "exp_rescale"
    /\ plv' = [plv EXCEPT ![p].old = values, ![p].oldT0 = t0, ![p].i = 1]
    /\ values' = EmptyValues
    /\ t0' = plv[p].t
    /\ t1' = ClearDeadline(t0')
    /\ Goto(p, "exp_loop")
    /\ UNCHANGED <<kind, reservoirSize, count, sNow, sSteps, panicked, offered,
                   last, nClears, mutex, pobs, committed, nUpdates>>
    /\ UNCHANGED <<meterVars, restVars>>

\* One round of: for _, v := range values { v.k = ...; heap.Push(...) }
ExpLoopStep(p) ==
    /\ ~panicked /\ ppc[p] = "exp_loop"
    /\ LET l == plv[p] IN
       IF PushPanics(values, reservoirSize)
       THEN Panic
       ELSE /\ values' = HeapPush(values,
                            [k |-> ScaleKey(l.old[l.i].k, t0 - l.oldT0),
                             v |-> l.old[l.i].v])
            /\ plv' = [plv EXCEPT ![p].i = l.i + 1]
            /\ Goto(p, IF l.i + 1 > Len(l.old) THEN "unlock" ELSE "exp_loop")
            /\ UNCHANGED <<kind, reservoirSize, count, t0, t1, sNow, sSteps,
                           panicked, offered, last, nClears, mutex, pobs,
                           committed, nUpdates>>
    /\ UNCHANGED <<meterVars, restVars>>

\* s.count++
UniCountStep(p) ==
    /\ ~panicked /\ ppc[p] = "uni_count"
    /\ count' = count + 1
    /\ Goto(p, "uni_store")
    /\ UNCHANGED <<kind, reservoirSize, values, t0, t1, sNow, sSteps, panicked,
                   offered, last, nClears, mutex, plv, pobs, committed, nUpdates>>
    /\ UNCHANGED <<meterVars, restVars>>

\* The append, or r := rand.Int63n(s.count) and the store.
UniStoreStep(p, r) ==
    /\ ~panicked /\ ppc[p] = "uni_store"
    /\ r \in 0..(count - 1)
    /\ Len(values) < reservoirSize => r = 0
    /\ values' = UniformUpdate(values, reservoirSize, plv[p].v, r)
    /\ Goto(p, "unlock")
    /\ UNCHANGED <<kind, reservoirSize, count, t0, t1, sNow, sSteps, panicked,
                   offered, last, nClears, mutex, plv, pobs, committed, nUpdates>>
    /\ UNCHANGED <<meterVars, restVars>>

\* uniformSample.Clear: s.count = 0
UniClearCountStep(p) ==
    /\ ~panicked /\ ppc[p] = "uni_clear_count"
    /\ count' = UniformClearCount
    /\ Goto(p, "uni_clear_values")
    /\ UNCHANGED <<kind, reservoirSize, values, t0, t1, sNow, sSteps, panicked,
                   offered, last, nClears, mutex, plv, pobs, committed, nUpdates>>
    /\ UNCHANGED <<meterVars, restVars>>

\* uniformSample.Clear: s.values = make([]int64, 0, s.reservoirSize)
UniClearValuesStep(p) ==
    /\ ~panicked /\ ppc[p] = "uni_clear_values"
    /\ values' = EmptyValues
    /\ Goto(p, "unlock")
    /\ UNCHANGED <<kind, reservoirSize, count, t0, t1, sNow, sSteps, panicked,
                   offered, last, nClears, mutex, plv, pobs, committed, nUpdates>>
    /\ UNCHANGED <<meterVars, restVars>>

\* expDecaySample.Clear: s.values = make(...)
ExpClearValuesStep(p) ==
    /\ ~panicked /\ ppc[p] = "exp_clear_values"
    /\ values' = EmptyValues
    /\ Goto(p, "exp_clear_t0")
    /\ UNCHANGED <<kind, reservoirSize, count, t0, t1, sNow, sSteps, panicked,
                   offered, last, nClears, mutex, plv, pobs, committed, nUpdates>>
    /\ UNCHANGED <<meterVars, restVars>>

\* expDecaySample.Clear: s.t0 = time.Now()
ExpClearEpochStep(p) ==
    /\ ~panicked /\ ppc[p] = "exp_clear_t0"
    /\ t0' = ClearEpoch(sNow)
    /\ Goto(p, "exp_clear_t1")
    /\ UNCHANGED <<kind, reservoirSize, count, values, t1, sNow, sSteps,
                   panicked, offered, last, nClears, mutex, plv, pobs,
                   committed, nUpdates>>
    /\ UNCHANGED <<meterVars, restVars>>

\* expDecaySample.Clear: s.t1 = s.t0.Add(rescaleThreshold)
ExpClearDeadlineStep(p) ==
    /\ ~panicked /\ ppc[p] = "exp_clear_t1"
    /\ t1' = ClearDeadline(t0)
    /\ Goto(p, "unlock")
    /\ UNCHANGED <<kind, reservoirSize, count, values, t0, sNow, sSteps,
                   panicked, offered, last, nClears, mutex, plv, pobs,
                   committed, nUpdates>>
    /\ UNCHANGED <<meterVars, restVars>>

\* defer s.mutex.Unlock(), and the return
Unlock(p) ==
    /\ ~panicked /\ ppc[p] = "unlock"
    /\ mutex' = [mutex EXCEPT !.w = "none"]
    /\ committed' = values
    /\ plv' = [plv EXCEPT ![p] = NoLocals]
    /\ Goto(p, "idle")
    /\ UNCHANGED <<sampleVars, pobs, nUpdates>>
    /\ UNCHANGED <<meterVars, restVars>>

\* return len(s.values), or the copy of the values
Read(p) ==
    /\ ~panicked /\ ppc[p] = "read"
    /\ pobs' = [pobs EXCEPT ![p] =
                   [val |-> IF plv[p].op = "Size" THEN Size ELSE Values,
                    com |-> committed]]
    /\ Goto(p, "runlock")
    /\ UNCHANGED <<sampleVars, mutex, plv, committed, nUpdates>>
    /\ UNCHANGED <<meterVars, restVars>>

\* defer s.mutex.RUnlock(), and the return
RUnlock(p) ==
    /\ ~panicked /\ ppc[p] = "runlock"
    /\ mutex' = [mutex EXCEPT !.r = @ \ {p}]
    /\ pobs' = [pobs EXCEPT ![p] = NoObs]
    /\ plv' = [plv EXCEPT ![p] = NoLocals]
    /\ Goto(p, "idle")
    /\ UNCHANGED <<sampleVars, committed, nUpdates>>
    /\ UNCHANGED <<meterVars, restVars>>

\* Time passes while the goroutines run: here, by more than a rescale window.
ConcClock ==
    /\ SampleClock(rescaleThreshold + 1)

ConcNext ==
    \/ \E p \in Procs, v \in SampleValues, draw \in 0..MaxDraw :
          UpdateLock(p, v, draw)
    \/ \E p \in Procs : ClearLock(p)
    \/ \E p \in Procs, op \in {"Size", "Values"} : ReaderLock(p, op)
    \/ \E p \in Procs : ExpPopStep(p)
    \/ \E p \in Procs : ExpPushStep(p)
    \/ \E p \in Procs : ExpRescaleStep(p)
    \/ \E p \in Procs : ExpLoopStep(p)
    \/ \E p \in Procs : UniCountStep(p)
    \/ \E p \in Procs, r \in 0..MaxUpdates : UniStoreStep(p, r)
    \/ \E p \in Procs : UniClearCountStep(p)
    \/ \E p \in Procs : UniClearValuesStep(p)
    \/ \E p \in Procs : ExpClearValuesStep(p)
    \/ \E p \in Procs : ExpClearEpochStep(p)
    \/ \E p \in Procs : ExpClearDeadlineStep(p)
    \/ \E p \in Procs : Unlock(p)
    \/ \E p \in Procs : Read(p)
    \/ \E p \in Procs : RUnlock(p)
    \/ ConcClock

(***************************************************************************)
(* Timer: a Histogram and a Meter.  The Histogram (histogram.go) is as the *)
(* specification describes it in section 4.6: Update(v) forwards v to the  *)
(* sample and updates the running aggregates, the count among them, under  *)
(* the Histogram's own lock.                                               *)
(***************************************************************************)
\* The goroutines that call Update, UpdateSince and Time, and the reader.
TimerCallers == {"u1", "u2"}
TimerReader == "rd"
TimerMethods == {"Update", "UpdateSince", "Time"}
\* int64(d): the durations fed, zero included.
TimerDurations == {0, 7}

\* Histogram.Update(v) and Histogram.Count().
HistogramUpdate(h, v) == Append(h, v)
HistogramCount(h) == Len(h)

\* Mutant: the timer marks the duration on the meter.
TimerMarkDuration(d) == d

\* t.m.Mark(1)
TimerMarkArg(d) == 1

\* Time: f() has returned, t.Update(time.Since(ts)) is next.
TimerAfterFn(op) == "hupdate"

NoCall == [op |-> "none", d |-> 0]
NoCounts == [h |-> 0, m |-> 0]
\* The reader that has its two counts goes on before anything else is looked
\* at: what it does with them is a step of its own goroutine only.
ReaderNotDone == tpc[TimerReader] # "seen"
TimerCallsStarted ==
    tDone + Cardinality({p \in TimerCallers : tpc[p] # "idle"})

\* No timer is in use (the other specifications).
TimerIdle ==
    /\ hValues = <<>>
    /\ tpc = [p \in TimerCallers \cup {TimerReader} |-> "idle"]
    /\ targ = [p \in TimerCallers |-> NoCall]
    /\ tobs = NoCounts
    /\ tDone = 0

\* A goroutine calls t.Update(d), t.UpdateSince(ts) or t.Time(f); d is the
\* duration it will record.
TimerCall(p, op, d) ==
    /\ ReaderNotDone
    /\ tpc[p] = "idle"
    /\ TimerCallsStarted < MaxTimerCalls
    /\ targ' = [targ EXCEPT ![p] = [op |-> op, d |-> d]]
    /\ tpc' = [tpc EXCEPT ![p] = IF op = "Time" THEN "fn" ELSE "hupdate"]
    /\ UNCHANGED <<hValues, tobs, tDone>>
    /\ UNCHANGED <<meterVars, sampleVars, concVars, regVars, wideVars>>

\* Time: ts := time.Now(); f() returns.
TimerFn(p) ==
    /\ ReaderNotDone
    /\ tpc[p] = "fn"
    /\ tpc' = [tpc EXCEPT ![p] = TimerAfterFn(targ[p].op)]
    /\ UNCHANGED <<hValues, targ, tobs, tDone>>
    /\ UNCHANGED <<meterVars, sampleVars, concVars, regVars, wideVars>>

\* t.h.Update(int64(d))
TimerHistUpdate(p) ==
    /\ ReaderNotDone
    /\ tpc[p] = "hupdate"
    /\ hValues' = HistogramUpdate(hValues, targ[p].d)
    /\ tpc' = [tpc EXCEPT ![p] = "mark"]
    /\ UNCHANGED <<targ, tobs, tDone>>
    /\ UNCHANGED <<meterVars, sampleVars, concVars, regVars, wideVars>>

\* t.m.Mark(1): the send on m.in meets the arbiter's "case n := <-m.in", and
\* the call returns.
TimerMark(p) ==
    /\ ReaderNotDone
    /\ tpc[p] = "mark"
    /\ arbiter = "select"
    /\ LET n == TimerMarkArg(targ[p].d) IN
       /\ a1' = MarkEWMA(a1, n)
       /\ a5' = MarkEWMA(a5, n)
       /\ a15' = MarkEWMA(a15, n)
       /\ mv' = MarkServiced(mv, a1', a5', a15', n, mNow)
       /\ hist' = Append(hist, [ev |-> "mark", n |-> n])
    /\ arbiter' = ArbiterLoop
    /\ tpc' = [tpc EXCEPT ![p] = "idle"]
    /\ targ' = [targ EXCEPT ![p] = NoCall]
    /\ tDone' = tDone + 1
    /\ UNCHANGED <<hValues, tobs>>
    /\ UNCHANGED <<mNow, tickerC, cpc, carg, cres, cstart, cquiet>>
    /\ UNCHANGED <<sampleVars, concVars, regVars, wideVars>>

\* The reader: t.Count(), which is t.h.Count() ...
TimerReadHist ==
    /\ tpc[TimerReader] = "idle"
    /\ tobs' = [NoCounts EXCEPT !.h = HistogramCount(hValues)]
    /\ tpc' = [tpc EXCEPT ![TimerReader] = "readm"]
    /\ UNCHANGED <<hValues, targ, tDone>>
    /\ UNCHANGED <<meterVars, sampleVars, concVars, regVars, wideVars>>

\* ... and then the Meter's count: the receive from m.out meets the
\* arbiter's "case m.out <- mv".
TimerReadMeter ==
    /\ tpc[TimerReader] = "readm"
    /\ arbiter = "select"
    /\ tobs' = [tobs EXCEPT !.m = OutValue.count]
    /\ tpc' = [tpc EXCEPT ![TimerReader] = "seen"]
    /\ arbiter' = ArbiterLoop
    /\ UNCHANGED <<hValues, targ, tDone>>
    /\ UNCHANGED <<mv, a1, a5, a15, mNow, tickerC, cpc, carg, cres, hist,
                   cstart, cquiet>>
    /\ UNCHANGED <<sampleVars, concVars, regVars, wideVars>>

\* The reader goes on.
TimerReadDone ==
    /\ tpc[TimerReader] = "seen"
    /\ tobs' = NoCounts
    /\ tpc' = [tpc EXCEPT ![TimerReader] = "idle"]
    /\ UNCHANGED <<hValues, targ, tDone>>
    /\ UNCHANGED <<meterVars, sampleVars, concVars, regVars, wideVars>>

TimerNext ==
    \/ \E p \in TimerCallers, op \in TimerMethods, d \in TimerDurations :
          TimerCall(p, op, d)
    \/ \E p \in TimerCallers : TimerFn(p)
    \/ \E p \in TimerCallers : TimerHistUpdate(p)
    \/ \E p \in TimerCallers : TimerMark(p)
    \/ TimerReadHist
    \/ TimerReadMeter
    \/ TimerReadDone
    \/ ArbiterTick
    \/ MeterClock

(***************************************************************************)
(* Registry: a map from names to metrics behind a sync.Mutex, which is not *)
(* reentrant: a goroutine that locks it again while holding it blocks.     *)
(* What a method does between Lock and Unlock without calling out is one   *)
(* step here; the copy loop of registered() and the loop of                *)
(* RunHealthchecks are a step per entry.                                   *)
(***************************************************************************)
\* The goroutines that call the registry, and the names they use.
RegCallers == {"g1", "g2"}
Names == {"a", "b"}
Nil == "nil"

\* The values offered to Register: one of each recognized kind, a
\* healthcheck whose function calls back into the registry
\* ("healthcheckR"), and a value of no metric kind ("text").
RegValues == {"counter", "gauge", "healthcheck", "healthcheckR", "histogram",
              "meter", "timer", "text"}
KindOf(v) ==
    CASE v = "counter" -> "Counter"
      [] v = "gauge" -> "Gauge"
      [] v \in {"healthcheck", "healthcheckR"} -> "Healthcheck"
      [] v = "histogram" -> "Histogram"
      [] v = "meter" -> "Meter"
      [] v = "timer" -> "Timer"
      [] OTHER -> "other"

\* Mutant: Register admits a value of any kind.
RecognizedAny(v) == TRUE

\* switch i.(type) { case Counter, Gauge, Healthcheck, Histogram, Meter, Timer:
Recognized(v) ==
    KindOf(v) \in {"Counter", "Gauge", "Healthcheck", "Histogram", "Meter",
                   "Timer"}

\* i.(Healthcheck)
IsHealthcheck(v) == KindOf(v) = "Healthcheck"
\* What the function of a healthcheck does: it only sets the status
\* (h.Healthy() or h.Unhealthy(err)), or it calls the registry.
CallsRegistry(v) == v = "healthcheckR"
\* What a callback of Each, or the function of a healthcheck, may call on
\* the registry.  Each of them starts by locking r.mutex.
NestedOps == {"Get", "Register", "Unregister"}

\* make(map[string]interface{}) and make(map[string]interface{}, hint): the
\* hint sizes the map and nothing more.
EmptyTable == [n \in Names |-> Nil]
MakeMap(hint) == EmptyTable
\* The keys of a map.
Keys(tbl) == {n \in Names : tbl[n] # Nil}

\* r.metrics[name] = i
RegisterApply(tbl, name, v) == [tbl EXCEPT ![name] = v]

\* Mutant: Unregister empties the table.
UnregisterAll(tbl, name) == EmptyTable

\* delete(r.metrics, name)
UnregisterApply(tbl, name) == [tbl EXCEPT ![name] = Nil]

\* r.mutex.Lock() goes through when nobody holds the lock.
RegLockFree == rmutex = "none"

NoRegLocals == [op |-> "none", name |-> "a", v |-> Nil, snap |-> EmptyTable,
                todo |-> {}, visited |-> {}, at |-> EmptyTable,
                nested |-> "none", logAt |-> 0, res |-> Nil]
NoLast == [op |-> "none", name |-> "a", v |-> Nil, before |-> EmptyTable]

\* No registry is in use (the other specifications).
RegistryIdle ==
    /\ metrics = EmptyTable
    /\ rmutex = "none"
    /\ rpc = [p \in RegCallers |-> "idle"]
    /\ rlv = [p \in RegCallers |-> NoRegLocals]
    /\ rlog = <<>>
    /\ rlast = NoLast
    /\ rCalls = 0

\* A caller whose Get has its result, or whose Each is through, returns
\* before anything else is looked at: the return is a step of its own
\* goroutine only.
NoneLeaving ==
    \A p \in RegCallers :
        /\ rpc[p] # "got"
        /\ ~(rpc[p] = "each_visit" /\ rlv[p].todo = {})

\* A Register or Unregister takes effect.
Logged(op, name, v) ==
    /\ rlog' = Append(rlog, [op |-> op, name |-> name, v |-> v])
    /\ rlast' = [op |-> op, name |-> name, v |-> v, before |-> metrics]

\* r.Get(name): Lock, return r.metrics[name], Unlock.  (A call that finds
\* the lock taken waits; it is the call made when the lock is free.)
Get(p, name) ==
    /\ rpc[p] = "idle" /\ rCalls < MaxRegCalls
    /\ NoneLeaving
    /\ RegLockFree
    /\ rCalls' = rCalls + 1
    /\ rlv' = [rlv EXCEPT ![p] = [NoRegLocals EXCEPT
                                      !.op = "Get", !.name = name,
                                      !.res = metrics[name],
                                      !.logAt = Len(rlog)]]
    /\ rpc' = [rpc EXCEPT ![p] = "got"]
    /\ UNCHANGED <<metrics, rmutex, rlog, rlast>>
    /\ UNCHANGED <<meterVars, sampleVars, concVars, timerVars, wideVars>>

\* r.Register(name, i): the type switch; for a value of a recognized kind
\* Lock, r.metrics[name] = i, Unlock; for any other value nothing.
Register(p, name, v) ==
    /\ rpc[p] = "idle" /\ rCalls < MaxRegCalls
    /\ NoneLeaving
    /\ rCalls' = rCalls + 1
    /\ IF Recognized(v)
       THEN /\ RegLockFree
            /\ metrics' = RegisterApply(metrics, name, v)
       ELSE UNCHANGED metrics
    /\ Logged("Register", name, v)
    /\ UNCHANGED <<rmutex, rpc, rlv>>
    /\ UNCHANGED <<meterVars, sampleVars, concVars, timerVars, wideVars>>

\* r.Unregister(name): Lock, delete(r.metrics, name), Unlock.
Unregister(p, name) ==
    /\ rpc[p] = "idle" /\ rCalls < MaxRegCalls
    /\ NoneLeaving
    /\ RegLockFree
    /\ rCalls' = rCalls + 1
    /\ metrics' = UnregisterApply(metrics, name)
    /\ Logged("Unregister", name, Nil)
    /\ UNCHANGED <<rmutex, rpc, rlv>>
    /\ UNCHANGED <<meterVars, sampleVars, concVars, timerVars, wideVars>>

\* Get returns.
GetReturn(p) ==
    /\ rpc[p] = "got"
    /\ rlv' = [rlv EXCEPT ![p] = NoRegLocals]
    /\ rpc' = [rpc EXCEPT ![p] = "idle"]
    /\ UNCHANGED <<metrics, rmutex, rlog, rlast, rCalls>>
    /\ UNCHANGED <<meterVars, sampleVars, concVars, timerVars, wideVars>>

\* r.Each(f): registered() makes its map, sized by a len(r.metrics) read
\* before the lock is taken, takes the lock, and its range over r.metrics
\* starts.
EachLock(p) ==
    /\ rpc[p] = "idle" /\ rCalls < MaxRegCalls
    /\ NoneLeaving
    /\ RegLockFree
    /\ rCalls' = rCalls + 1
    /\ rmutex' = p
    /\ \E hint \in 0..Cardinality(Names) :
          rlv' = [rlv EXCEPT ![p] = [NoRegLocals EXCEPT
                      !.op = "Each", !.snap = MakeMap(hint),
                      !.todo = Keys(metrics), !.at = metrics]]
    /\ rpc' = [rpc EXCEPT ![p] = "each_copy"]
    /\ UNCHANGED <<metrics, rlog, rlast>>
    /\ UNCHANGED <<meterVars, sampleVars, concVars, timerVars, wideVars>>

\* registered(): metrics[name] = i, for one entry of r.metrics.
EachCopy(p, n) ==
    /\ rpc[p] = "each_copy" /\ n \in rlv[p].todo
    /\ NoneLeaving
    /\ rlv' = [rlv EXCEPT ![p].snap = RegisterApply(@, n, metrics[n]),
                          ![p].todo = @ \ {n}]
    /\ UNCHANGED <<metrics, rmutex, rpc, rlog, rlast, rCalls>>
    /\ UNCHANGED <<meterVars, sampleVars, concVars, timerVars, wideVars>>

\* Mutant: Each ranges over the live table.
EachTableLive(p) == metrics

\* for name, i := range r.registered(): the map ranged over is the copy.
EachTable(p) == rlv[p].snap

\* registered(): the loop is over, Unlock and return; the range of Each
\* starts.
EachUnlock(p) ==
    /\ rpc[p] = "each_copy" /\ rlv[p].todo = {}
    /\ NoneLeaving
    /\ rmutex' = "none"
    /\ rlv' = [rlv EXCEPT ![p].todo = Keys(EachTable(p))]
    /\ rpc' = [rpc EXCEPT ![p] = "each_visit"]
    /\ UNCHANGED <<metrics, rlog, rlast, rCalls>>
    /\ UNCHANGED <<meterVars, sampleVars, concVars, timerVars, wideVars>>

\* Each: f(name, i) for one entry; f returns, or calls Get, Register or
\* Unregister of this registry (on the name it was given).
EachVisit(p, n, nested) ==
    /\ rpc[p] = "each_visit" /\ n \in rlv[p].todo
    /\ NoneLeaving
    /\ rlv' = [rlv EXCEPT ![p].todo = @ \ {n},
                          ![p].visited = @ \cup {<<n, EachTable(p)[n]>>},
                          ![p].name = n,
                          ![p].nested = nested]
    /\ rpc' = [rpc EXCEPT ![p] = IF nested = "none" THEN "each_visit"
                                 ELSE "cb_wait"]
    /\ UNCHANGED <<metrics, rmutex, rlog, rlast, rCalls>>
    /\ UNCHANGED <<meterVars, sampleVars, concVars, timerVars, wideVars>>

\* The metric a callback registers.
NestedValue == "counter"

\* The call a callback or a healthcheck's function makes: Lock, the body of
\* Get, Register or Unregister, Unlock, and back to the loop it came from.
NestedBody(p) ==
    /\ rpc[p] = "cb_wait" /\ RegLockFree
    /\ NoneLeaving
    /\ CASE rlv[p].nested = "Register" ->
              /\ metrics' = RegisterApply(metrics, rlv[p].name, NestedValue)
              /\ Logged("Register", rlv[p].name, NestedValue)
         [] rlv[p].nested = "Unregister" ->
              /\ metrics' = UnregisterApply(metrics, rlv[p].name)
              /\ Logged("Unregister", rlv[p].name, Nil)
         [] OTHER -> UNCHANGED <<metrics, rlog, rlast>>
    /\ rlv' = [rlv EXCEPT ![p].nested = "none"]
    /\ rpc' = [rpc EXCEPT ![p] = IF rlv[p].op = "Each" THEN "each_visit"
                                 ELSE "rh_visit"]
    /\ UNCHANGED <<rmutex, rCalls>>
    /\ UNCHANGED <<meterVars, sampleVars, concVars, timerVars, wideVars>>

\* Each returns.
EachReturn(p) ==
    /\ rpc[p] = "each_visit" /\ rlv[p].todo = {}
    /\ rlv' = [rlv EXCEPT ![p] = NoRegLocals]
    /\ rpc' = [rpc EXCEPT ![p] = "idle"]
    /\ UNCHANGED <<metrics, rmutex, rlog, rlast, rCalls>>
    /\ UNCHANGED <<meterVars, sampleVars, concVars, timerVars, wideVars>>

\* r.RunHealthchecks(): r.mutex.Lock(), and the range over r.metrics
\* starts.
RunHealthchecksLock(p) ==
    /\ rpc[p] = "idle" /\ rCalls < MaxRegCalls
    /\ NoneLeaving
    /\ RegLockFree
    /\ rCalls' = rCalls + 1
    /\ rmutex' = p
    /\ rlv' = [rlv EXCEPT ![p] = [NoRegLocals EXCEPT
                                      !.op = "RunHealthchecks",
                                      !.todo = Keys(metrics),
                                      !.at = metrics]]
    /\ rpc' = [rpc EXCEPT ![p] = "rh_visit"]
    /\ UNCHANGED <<metrics, rlog, rlast>>
    /\ UNCHANGED <<meterVars, sampleVars, concVars, timerVars, wideVars>>

\* RunHealthchecks: one entry of r.metrics; if h, ok := i.(Healthcheck); ok
\* { h.Check() }, and Check is h.f(h): f sets the status and returns, or it
\* calls Get, Register or Unregister of this registry.
RunHealthchecksVisit(p, n, nested) ==
    /\ rpc[p] = "rh_visit" /\ n \in rlv[p].todo
    /\ NoneLeaving
    /\ LET h == metrics[n]
           calls == IsHealthcheck(h) /\ CallsRegistry(h)
       IN  /\ calls <=> nested # "none"
           /\ rlv' = [rlv EXCEPT ![p].todo = @ \ {n},
                                 ![p].visited =
                                     IF IsHealthcheck(h) THEN @ \cup {<<n, h>>}
                                     ELSE @,
                                 ![p].name = n,
                                 ![p].nested = nested]
           /\ rpc' = [rpc EXCEPT ![p] = IF calls THEN "cb_wait"
                                        ELSE "rh_visit"]
    /\ UNCHANGED <<metrics, rmutex, rlog, rlast, rCalls>>
    /\ UNCHANGED <<meterVars, sampleVars, concVars, timerVars, wideVars>>

\* RunHealthchecks: the loop is over; the deferred Unlock, and the return.
RunHealthchecksUnlock(p) ==
    /\ rpc[p] = "rh_visit" /\ rlv[p].todo = {}
    /\ NoneLeaving
    /\ rmutex' = "none"
    /\ rlv' = [rlv EXCEPT ![p] = NoRegLocals]
    /\ rpc' = [rpc EXCEPT ![p] = "idle"]
    /\ UNCHANGED <<metrics, rlog, rlast, rCalls>>
    /\ UNCHANGED <<meterVars, sampleVars, concVars, timerVars, wideVars>>

RegistryNext ==
    \/ \E p \in RegCallers, n \in Names : Get(p, n)
    \/ \E p \in RegCallers : GetReturn(p)
    \/ \E p \in RegCallers, n \in Names, v \in RegValues : Register(p, n, v)
    \/ \E p \in RegCallers, n \in Names : Unregister(p, n)
    \/ \E p \in RegCallers : EachLock(p)
    \/ \E p \in RegCallers, n \in Names : EachCopy(p, n)
    \/ \E p \in RegCallers : EachUnlock(p)
    \/ \E p \in RegCallers, n \in Names, nested \in NestedOps \cup {"none"} :
          EachVisit(p, n, nested)
    \/ \E p \in RegCallers : NestedBody(p)
    \/ \E p \in RegCallers : EachReturn(p)
    \/ \E p \in RegCallers : RunHealthchecksLock(p)
    \/ \E p \in RegCallers, n \in Names, nested \in NestedOps \cup {"none"} :
          RunHealthchecksVisit(p, n, nested)
    \/ \E p \in RegCallers : RunHealthchecksUnlock(p)

\* Nothing but the meter, the samples and their callers is in use.
(***************************************************************************)
(* The Meter's arbiter with mv.count at its width.  An int64 is kept as    *)
(* its 8 bytes in two's complement, lowest first; Go's + and * on int64    *)
(* keep the low 64 bits of the result.                                     *)
(***************************************************************************)
WideBase == 256
WideLimbs == 8
TopBit == 128

\* The int64 of a number below 2^31.
Wide(n) ==
    [i \in 1..WideLimbs |->
        IF i > 4 THEN 0 ELSE (n \div (WideBase ^ (i - 1))) % WideBase]

\* Column sums to bytes, carrying upwards; the carry out of the last column
\* is dropped.
RECURSIVE Normalize(_, _, _)
Normalize(cols, i, carry) ==
    IF i > Len(cols) THEN <<>>
    ELSE <<(cols[i] + carry) % WideBase>>
             \o Normalize(cols, i + 1, (cols[i] + carry) \div WideBase)

\* a + b on int64.
WrapAdd(a, b) == Normalize([i \in 1..WideLimbs |-> a[i] + b[i]], 1, 0)

\* The sum of the byte products a[i] * b[j] of column k (i + j = k + 1).
RECURSIVE ColSum(_, _, _, _)
ColSum(a, b, k, i) ==
    IF i > Len(a) THEN 0
    ELSE (IF k + 1 - i \in DOMAIN b THEN a[i] * b[k + 1 - i] ELSE 0)
             + ColSum(a, b, k, i + 1)

\* The product of two non-negative int64 in full, 16 bytes.
FullMul(a, b) ==
    Normalize([k \in 1..(2 * WideLimbs) |-> ColSum(a, b, k, 1)], 1, 0)

\* a * b on int64: the low 8 bytes.
WrapMul(a, b) == SubSeq(FullMul(a, b), 1, WideLimbs)

\* An int64 at 16 bytes, its sign kept.
SignExtend(x) ==
    x \o [i \in 1..WideLimbs |->
             IF x[WideLimbs] >= TopBit THEN WideBase - 1 ELSE 0]
NonNegative(x) == x[WideLimbs] < TopBit

\* float64(1e9*mv.count) / float64(time.Since(t)): the int64 product over
\* the time elapsed.
WideRateMean(cnt, elapsed) ==
    [num |-> WrapMul(Wide(NsPerSec), cnt), sec |-> elapsed]

\* 9223372036, the largest count whose product with 1e9 is below 2^63.
LargeCount == <<4, 125, 193, 37, 2, 0, 0, 0>>
\* What callers pass to Mark.
WideMarkArgs == {Wide(1), Wide(1000), Wide(NsPerSec), LargeCount}

NoWideOp == [op |-> "none", n |-> Wide(0), before |-> Wide(0)]

\* The arbiter as it starts: var mv meterV; t := time.Now().
WideInit ==
    /\ wCount = Wide(0)
    /\ wMean = [num |-> Wide(0), sec |-> 0]
    /\ wElapsed = 0
    /\ wLast = NoWideOp
    /\ wMarks = 0

\* case n := <-m.in: mv.count += n; ...; set()
WideMark(n) ==
    /\ wMarks < MaxWideMarks
    /\ wMarks' = wMarks + 1
    /\ wCount' = WrapAdd(wCount, n)
    /\ wMean' = WideRateMean(wCount', wElapsed)
    /\ wLast' = [op |-> "mark", n |-> n, before |-> wCount]
    /\ UNCHANGED wElapsed
    /\ UNCHANGED <<meterVars, sampleVars, concVars, timerVars, regVars>>

\* case <-m.ticker.C: ...; set(), a tick period after the last one.
WideTick ==
    /\ wElapsed + TickSeconds <= MaxWideSeconds
    /\ wElapsed % TickSeconds = 0
    /\ wElapsed' = wElapsed + TickSeconds
    /\ wMean' = WideRateMean(wCount, wElapsed')
    /\ wLast' = [op |-> "tick", n |-> Wide(0), before |-> wCount]
    /\ UNCHANGED <<wCount, wMarks>>
    /\ UNCHANGED <<meterVars, sampleVars, concVars, timerVars, regVars>>

\* A second passes without a tick.
WideClock ==
    /\ wElapsed < MaxWideSeconds
    /\ (wElapsed + 1) % TickSeconds # 0
    /\ wElapsed' = wElapsed + 1
    /\ UNCHANGED <<wCount, wMean, wLast, wMarks>>
    /\ UNCHANGED <<meterVars, sampleVars, concVars, timerVars, regVars>>

WideNext ==
    \/ \E n \in WideMarkArgs : WideMark(n)
    \/ WideTick
    \/ WideClock

RestIdle == TimerIdle /\ RegistryIdle /\ WideInit

DecaySpecInit == DecayInit /\ MeterInit /\ ConcIdle /\ RestIdle
DecaySpec == DecaySpecInit /\ [][DecayNext]_vars

SampleSpecInit == SampleInit /\ MeterInit /\ ConcIdle /\ RestIdle
SampleSpec == SampleSpecInit /\ [][SampleNext]_vars

ConcSpecInit == SampleInit /\ MeterInit /\ ConcIdle /\ RestIdle
ConcSpec == ConcSpecInit /\ [][ConcNext]_vars


MeterSpecInit == MeterInit /\ SampleIdle /\ ConcIdle /\ RestIdle
MeterSpec == MeterSpecInit /\ [][MeterNext]_vars

\* NewTimer(): a Histogram, and a Meter with its arbiter.
TimerSpecInit == MeterInit /\ SampleIdle /\ ConcIdle /\ RestIdle
TimerSpec == TimerSpecInit /\ [][TimerNext]_vars

\* NewRegistry(): an empty name table.
RegistrySpecInit == MeterInit /\ SampleIdle /\ ConcIdle /\ RestIdle
RegistrySpec == RegistrySpecInit /\ [][RegistryNext]_vars

\* The arbiter of NewMeter(), its count at full width.
MeanSpecInit == MeterInit /\ SampleIdle /\ ConcIdle /\ RestIdle
MeanSpec == MeanSpecInit /\ [][WideNext]_vars

\* The arbiter's select picks at random among its ready cases and a channel
\* queues its blocked senders and receivers first come, first served: a case
\* that is ready again and again is taken.  A caller whose channel operation
\* completed is a runnable goroutine, and runs.
MeterFairSpec ==
    /\ MeterSpec
    /\ \A c \in Callers : SF_vars(ArbiterMark(c))
    /\ \A c \in Callers : SF_vars(ArbiterOut(c))
    /\ \A c \in Callers : WF_vars(Return(c))

(***************************************************************************)
(* What the history says the snapshot must be.                             *)
(***************************************************************************)
\* The marks serviced since the last tick before position i (exclusive).
RECURSIVE SinceTick(_, _)
SinceTick(h, i) ==
    IF i = 0 \/ h[i].ev = "tick" THEN 0
    ELSE SinceTick(h, i - 1) + h[i].n

\* The folding steps of an EWMA that has seen history h.
RECURSIVE ExpectedTerms(_, _)
ExpectedTerms(h, i) ==
    IF i = 0 THEN <<>>
    ELSE IF h[i].ev = "mark" THEN ExpectedTerms(h, i - 1)
    ELSE LET before == ExpectedTerms(h, i - 1)
             step == [op |-> IF before = <<>> THEN "set" ELSE "blend",
                      num |-> SinceTick(h, i - 1), den |-> TickSeconds]
         IN  Append(before, step)

\* The meterV after completely servicing history h, the last of it at
\* clock reading at.
Expected(h, at) ==
    IF h = <<>> THEN ZeroMeterV
    ELSE [count |-> SumMarks(h),
          rate1 |-> [window |-> 1, terms |-> ExpectedTerms(h, Len(h))],
          rate5 |-> [window |-> 5, terms |-> ExpectedTerms(h, Len(h))],
          rate15 |-> [window |-> 15, terms |-> ExpectedTerms(h, Len(h))],
          rateMean |-> [num |-> SumMarks(h), den |-> at]]

ClockReadings == {k * TickSeconds : k \in 0..MaxTicks}
Readers == {c \in Callers : cpc[c] = "got"}

\* The first tick of the history, 0 when there is none.
FirstTick(h) ==
    IF NumTicks(h) = 0 THEN 0
    ELSE CHOOSE i \in DOMAIN h :
            h[i].ev = "tick" /\ \A j \in 1..(i - 1) : h[j].ev = "mark"

(***************************************************************************)
(* C1.  No update is lost: a Count() that starts after a set of Mark calls *)
(* has returned, with no Mark in flight while it waits, returns the sum of *)
(* their arguments, whatever ticks and reads were interleaved; on a fresh  *)
(* meter it returns 0.                                                     *)
(***************************************************************************)
C1_NoLostUpdate ==
    \A c \in Readers :
        cquiet[c] => /\ cres[c].count = cstart[c]
                     /\ cres[c].count = SumMarks(hist)
                     /\ (NumMarks(hist) = 0 => cres[c].count = 0)

\* Two marks (1 and 3) returned, a tick was serviced, and Count() gives 4.
C1_Witness ==
    \E c \in Readers :
        /\ cquiet[c] /\ NumMarks(hist) = 2 /\ NumTicks(hist) >= 1
        /\ cstart[c] = 4 /\ cres[c].count = 4

(***************************************************************************)
(* C2.  Every Mark, Count, Rate1, Rate5, Rate15 or RateMean call returns:  *)
(* under a fair choice among the select's ready cases no pending mark or   *)
(* snapshot request is starved.                                            *)
(***************************************************************************)
C2_EveryCallReturns ==
    \A c \in Callers :
        /\ (cpc[c] = "mark") ~> (cpc[c] = "marked")
        /\ (cpc[c] = "read") ~> (cpc[c] = "got")

\* A mark has returned while a read was pending and a tick was buffered.
C2_Witness ==
    \E c, d \in Callers : cpc[c] = "marked" /\ cpc[d] = "read" /\ tickerC = 1

(***************************************************************************)
(* C3.  Every snapshot a reader receives is the meterV the arbiter held    *)
(* after completely servicing a prefix of the marks and ticks: its count,  *)
(* its three rates and its mean rate all belong to that one prefix.        *)
(***************************************************************************)
C3_SnapshotConsistent ==
    \A c \in Readers :
        \E k \in 0..Len(hist), at \in ClockReadings :
            cres[c] = Expected(SubSeq(hist, 1, k), at)

\* A snapshot taken after a mark, a tick and another mark.
C3_Witness ==
    \E c \in Readers :
        /\ Len(hist) = 3 /\ hist[2].ev = "tick"
        /\ hist[1].ev = "mark" /\ hist[1].n = 3
        /\ hist[3].ev = "mark" /\ hist[3].n = 1
        /\ cres[c].count = 4

C5_Rate1AfterFirstTick ==
    \A c \in Readers :
        LET f == FirstTick(hist)
            n == SinceTick(hist, f - 1)
        IN  (f > 0 /\ n > 0) =>
                /\ ~IsZeroRate(cres[c].rate1)
                /\ NumTicks(hist) = 1 =>
                       cres[c].rate1 =
                           [window |-> 1,
                            terms |-> << [op |-> "set", num |-> n,
                                          den |-> TickSeconds] >>]

\* Mark(3), the first tick, then Rate1() = 3/5.
C5_Witness ==
    \E c \in Readers :
        /\ hist = << [ev |-> "mark", n |-> 3], [ev |-> "tick", n |-> 0] >>
        /\ cres[c].rate1.terms = << [op |-> "set", num |-> 3, den |-> 5] >>

(***************************************************************************)
(* Samples: what the claims are stated with.                               *)
(***************************************************************************)
\* A sequence as a multiset: value -> number of occurrences.
BagOf(q) == [x \in Range(q) |-> Cardinality({i \in DOMAIN q : q[i] = x})]

(***************************************************************************)
(* C6.  A uniform sample of capacity k that has been offered n <= k values *)
(* since it was created or cleared holds exactly n values, and Values()    *)
(* is, as a multiset, the values offered.                                  *)
(***************************************************************************)
C6_UniformKeepsFirstK ==
    (kind = "uniform" /\ Len(offered) <= reservoirSize) =>
        /\ Size = Len(offered)
        /\ BagOf(Values) = BagOf(offered)

\* A reservoir of capacity 2 filled to capacity with 2 and 1 after a Clear.
C6_Witness ==
    /\ kind = "uniform" /\ reservoirSize = 2 /\ nClears = 1
    /\ offered = <<2, 1>> /\ Size = 2

(***************************************************************************)
(* C7.  For a uniform sample of capacity k, after n Updates since creation *)
(* or the last Clear, Size() = min(n, k); an Update on a full reservoir    *)
(* draws r in [0, n) and overwrites slot r exactly when r < k, leaving the *)
(* reservoir unchanged otherwise; so every retained value is one of the    *)
(* values offered since the last Clear.                                    *)
(***************************************************************************)
C7_UniformReservoir ==
    kind = "uniform" =>
        /\ count = Len(offered)
        /\ Size = Min(count, reservoirSize)
        /\ Range(Values) \subseteq Range(offered)
        /\ (last.op = "Update" /\ Len(last.before) = reservoirSize) =>
               /\ last.r \in 0..(count - 1)
               /\ values = IF last.r < reservoirSize
                           THEN [last.before EXCEPT ![last.r + 1] = last.v]
                           ELSE last.before

\* The third value offered to a full reservoir of capacity 2, with r = 2: it
\* is discarded.
C7_Witness ==
    /\ kind = "uniform" /\ reservoirSize = 2 /\ count = 3
    /\ last.op = "Update" /\ last.r = 2 /\ last.v = 2
    /\ last.before = <<1, 1>> /\ values = <<1, 1>>

(***************************************************************************)
(* C8.  As claimed: a Sample of either variant created with capacity 0 is  *)
(* a valid configuration: Update, Size, Values and Clear never panic and   *)
(* the reservoir is empty after any sequence of operations.                *)
(***************************************************************************)
C8_ZeroCapacityIsValid ==
    reservoirSize = 0 => (~panicked /\ Size = 0 /\ Values = <<>>)

(***************************************************************************)
(* C9.  Clear() leaves a sample, whatever updates and rescales came        *)
(* before, in the state of a freshly created one: Size() = 0, Values() is  *)
(* empty, the uniform sample's count is 0 again, so that the next k        *)
(* updates are all retained, and the decaying sample's epoch is the time   *)
(* of the Clear and its rescale deadline one window later.                 *)
(***************************************************************************)
C9_ClearRestoresInitial ==
    /\ last.op = "Clear" =>
           /\ Size = 0 /\ Values = <<>>
           /\ count = 0
           /\ kind = "expdecay" => (t0 = last.t /\ t1 = last.t + rescaleThreshold)
    /\ (nClears > 0 /\ kind = "uniform" /\ Len(offered) <= reservoirSize) =>
           Values = offered

\* A decaying sample cleared after its reservoir was filled and rescaled.
C9_Witness ==
    /\ kind = "expdecay" /\ last.op = "Clear" /\ Len(last.before) = 2
    /\ last.t > rescaleThreshold /\ t0 = last.t
    /\ \E i \in DOMAIN last.before : last.before[i].k.zero

(***************************************************************************)
(* C10.  Size() and Values() run concurrently with Update and Clear see    *)
(* the reservoir as a completed operation left it, never a state inside an *)
(* operation (between the eviction and the insertion, or in the middle of  *)
(* a rescale): readers may hold the lock together, never with a writer.    *)
(***************************************************************************)
C10_ReadersSeeCompleteStates ==
    /\ \A p \in Procs :
          ppc[p] = "runlock" =>
              pobs[p].val = IF plv[p].op = "Size" THEN Len(pobs[p].com)
                            ELSE ValuesOf(pobs[p].com)
    /\ mutex.w # "none" => mutex.r = {}
    /\ \A p \in Procs : ppc[p] \in Writing <=> mutex.w = p
    /\ \A p \in Procs : ppc[p] \in {"read", "runlock"} <=> p \in mutex.r

\* Two readers hold the lock together, after an Update that rescaled a
\* reservoir of two entries: one read Size() = 2, the other the two values.
C10_Witness ==
    \E p, q \in Procs :
        /\ p # q /\ kind = "expdecay"
        /\ ppc[p] = "runlock" /\ plv[p].op = "Size" /\ pobs[p].val = 2
        /\ ppc[q] = "runlock" /\ plv[q].op = "Values" /\ Len(pobs[q].val) = 2
        /\ \A i \in DOMAIN values : values[i].k.zero

(***************************************************************************)
(* C11.  As claimed: Timer.Update and Timer.UpdateSince apply their two    *)
(* effects atomically: no reader of the timer's Histogram and Meter sees   *)
(* one of the two applied and the other not.  A reader that reads the      *)
(* Histogram's count and then the Meter's count never finds the Meter      *)
(* behind the Histogram.                                                   *)
(***************************************************************************)
C11_TimerUpdateAtomic ==
    tpc[TimerReader] = "seen" => tobs.m >= tobs.h

(***************************************************************************)
(* C12.  Each completed call of Timer.Update, UpdateSince or Time(fn) has  *)
(* fed exactly one value, its duration, to the Histogram and added exactly *)
(* 1 to the Meter's count: with j calls completed and none in progress the *)
(* Histogram has received j values and the Meter's count is j; a call in   *)
(* progress accounts for at most its own value.                            *)
(***************************************************************************)
C12_TimerCountsCalls ==
    LET marking == {p \in TimerCallers : tpc[p] = "mark"}
    IN  /\ HistogramCount(hValues) = tDone + Cardinality(marking)
        /\ mv.count = tDone
        /\ SumMarks(hist) = NumMarks(hist)
        /\ \A p \in marking : \E i \in DOMAIN hValues : hValues[i] = targ[p].d
        /\ (\A p \in TimerCallers : tpc[p] = "idle") =>
               (HistogramCount(hValues) = tDone /\ mv.count = tDone)

\* Three calls have completed, durations 0 and 7 among them, across a tick.
C12_Witness ==
    /\ tDone = 3 /\ \A p \in TimerCallers : tpc[p] = "idle"
    /\ HistogramCount(hValues) = 3 /\ mv.count = 3
    /\ hValues[1] = 7 /\ hValues[3] = 0
    /\ NumTicks(hist) >= 1

(***************************************************************************)
(* Registry: what the claims are stated with.                              *)
(***************************************************************************)
\* The (name, metric) pairs of a name table.
Entries(tbl) == {<<n, tbl[n]>> : n \in Keys(tbl)}
SixKinds == {"Counter", "Gauge", "Healthcheck", "Histogram", "Meter", "Timer"}

\* The metric of a recognized kind most recently registered under name
\* since the last Unregister(name), Nil if there is none.
RECURSIVE LastRegistered(_, _)
LastRegistered(log, name) ==
    IF log = <<>> THEN Nil
    ELSE LET e == log[Len(log)]
             front == SubSeq(log, 1, Len(log) - 1)
         IN  IF e.name # name THEN LastRegistered(front, name)
             ELSE IF e.op = "Unregister" THEN Nil
             ELSE IF KindOf(e.v) \in SixKinds THEN e.v
             ELSE LastRegistered(front, name)

(***************************************************************************)
(* C13.  Registry.Each iterates over a copy of the name table taken under  *)
(* the lock: nobody changes the table while it is copied, the copy is the  *)
(* table as it was at the instant the lock was taken, the pairs passed to  *)
(* the callback are pairs of that table and, when Each is through, all of  *)
(* them, whatever other callers register or unregister meanwhile; and a    *)
(* callback that calls Register, Unregister or Get never waits for a lock  *)
(* its own goroutine holds.                                                *)
(***************************************************************************)
C13_EachStableCopy ==
    \A p \in RegCallers :
        rlv[p].op = "Each" =>
            /\ rpc[p] = "each_copy" => (rmutex = p /\ metrics = rlv[p].at)
            /\ rpc[p] \in {"each_visit", "cb_wait"} =>
                   /\ rlv[p].snap = rlv[p].at
                   /\ rlv[p].visited \subseteq Entries(rlv[p].at)
                   /\ rmutex # p
            /\ (rpc[p] = "each_visit" /\ rlv[p].todo = {}) =>
                   rlv[p].visited = Entries(rlv[p].at)

\* Each has visited all of a table that another caller has changed since.
C13_Witness ==
    \E p \in RegCallers :
        /\ rlv[p].op = "Each" /\ rpc[p] = "each_visit" /\ rlv[p].todo = {}
        /\ rlv[p].visited = {<<"a", "meter">>}
        /\ metrics["b"] = "gauge" /\ rlv[p].at["b"] = Nil

(***************************************************************************)
(* C14.  Register admits a value only if it is of one of the six           *)
(* recognized kinds: every metric in the table is of such a kind, a        *)
(* Register of a recognized value sets that name and nothing else, and a   *)
(* Register of any other value leaves the table as it was, the metric      *)
(* already registered under that name included.                            *)
(***************************************************************************)
C14_RegisterAdmitsByKind ==
    /\ \A n \in Names : metrics[n] # Nil => KindOf(metrics[n]) \in SixKinds
    /\ rlast.op = "Register" =>
           metrics = IF KindOf(rlast.v) \in SixKinds
                     THEN [rlast.before EXCEPT ![rlast.name] = rlast.v]
                     ELSE rlast.before

\* "text" was offered under a name that holds a timer: the timer is kept.
C14_Witness ==
    /\ rlast.op = "Register" /\ rlast.v = "text"
    /\ rlast.before[rlast.name] = "timer" /\ metrics[rlast.name] = "timer"

(***************************************************************************)
(* C15.  After any sequence of Register and Unregister calls Get(name)     *)
(* returns the metric of recognized kind most recently registered under    *)
(* that name since the last Unregister(name), nil if there is none; an     *)
(* operation on one name changes nothing under another name.               *)
(***************************************************************************)
C15_GetReturnsLastRegistered ==
    /\ \A p \in RegCallers :
           rpc[p] = "got" =>
               rlv[p].res = LastRegistered(SubSeq(rlog, 1, rlv[p].logAt),
                                           rlv[p].name)
    /\ \A n \in Names : metrics[n] = LastRegistered(rlog, n)
    /\ rlast.op # "none" =>
           \A n \in Names \ {rlast.name} : metrics[n] = rlast.before[n]

\* Get("a") returns the timer after a Register of a timer and one of "text".
C15_Witness ==
    \E p \in RegCallers :
        /\ rpc[p] = "got" /\ rlv[p].name = "a" /\ rlv[p].res = "timer"
        /\ Len(rlog) = 2 /\ rlog[2].name = "a" /\ rlog[2].v = "text"

(***************************************************************************)
(* C20.  As claimed: RunHealthchecks always returns, also when the         *)
(* function of a healthcheck calls the registry: it never waits for a lock *)
(* that its own goroutine holds; nobody changes the name table while it    *)
(* runs; and when its loop is through it has called Check() on every       *)
(* registered Healthcheck.                                                 *)
(***************************************************************************)
C20_RunHealthchecksReturns ==
    \A p \in RegCallers :
        rlv[p].op = "RunHealthchecks" =>
            /\ rpc[p] = "cb_wait" => rmutex # p
            /\ rpc[p] \in {"rh_visit", "cb_wait"} => metrics = rlv[p].at
            /\ (rpc[p] = "rh_visit" /\ rlv[p].todo = {}) =>
                   rlv[p].visited =
                       {e \in Entries(rlv[p].at) : IsHealthcheck(e[2])}

(***************************************************************************)
(* C17.  A rescale of a decaying sample, which an Update does exactly when *)
(* its time is past the deadline t0 + rescaleThreshold, drops no entry:    *)
(* Size() and the multiset of retained values after it are those before    *)
(* it (after that Update's insertion), the epoch t0 becomes the time of    *)
(* the Update and the deadline t0 + rescaleThreshold; an Update that does  *)
(* not rescale leaves the epoch alone.                                     *)
(***************************************************************************)
C17_RescaleDropsNothing ==
    (kind = "expdecay" /\ last.op = "Update" /\ ~panicked) =>
        /\ last.rescaled <=> last.t > last.epoch + rescaleThreshold
        /\ last.rescaled =>
               /\ Size = Len(last.mid)
               /\ BagOf(Values) = BagOf(ValuesOf(last.mid))
               /\ t0 = last.t
               /\ t1 = last.t + rescaleThreshold
        /\ ~last.rescaled => (t0 = last.epoch /\ values = last.mid)

\* An Update rescaled a full reservoir of capacity 2 holding a 1 and a 2,
\* and every key was flushed to 0.0.
C17_Witness ==
    /\ kind = "expdecay" /\ last.op = "Update" /\ last.rescaled
    /\ reservoirSize = 2 /\ Size = 2 /\ Range(Values) = {1, 2}
    /\ last.t = 2 * rescaleThreshold
    /\ \A i \in DOMAIN values : values[i].k.zero

\* Sequence q without its entry i.
Without(q, i) == SubSeq(q, 1, i - 1) \o SubSeq(q, i + 1, Len(q))

(***************************************************************************)
(* C16.  As claimed: a decaying sample of capacity k >= 1 never holds more *)
(* than k entries; an Update on a full reservoir removes exactly one       *)
(* entry, one than which no entry of the reservoir has a smaller key, and  *)
(* then inserts the new entry, which is always admitted; an Update on a    *)
(* reservoir that is not full only adds the new entry.                     *)
(***************************************************************************)
C16_EvictsMinimum ==
    (kind = "expdecay" /\ reservoirSize >= 1) =>
        /\ ~panicked
        /\ Size <= reservoirSize
        /\ last.op = "Update" =>
               LET new == [k |-> NewKey(last.t - last.epoch, last.r),
                           v |-> last.v]
               IN  /\ BagOf(last.mid) = BagOf(Append(last.popped, new))
                   /\ IF Len(last.before) = reservoirSize
                      THEN \E i \in DOMAIN last.before :
                              /\ BagOf(last.popped) =
                                     BagOf(Without(last.before, i))
                              /\ \A j \in DOMAIN last.before :
                                     ~KeyLess(last.before[j].k,
                                              last.before[i].k)
                      ELSE last.popped = last.before

\* The keys of a heap, in its order.
KeysOf(q) == [i \in DOMAIN q |-> q[i].k]
\* A key exp(alpha * (t - t0)) / u taken relative to an epoch that is
\* `seconds` later: its logarithm is that much smaller.
KeyAtEpoch(key, seconds) ==
    IF key.fp = "finite" /\ ~key.zero THEN FiniteKey(key.log - seconds)
    ELSE key

(***************************************************************************)
(* C18.  As claimed: a rescale multiplies every retained key by            *)
(* exp(-alpha * (t0' - t0)) with the epoch difference in seconds, the unit *)
(* in which keys are created, so that each key becomes the key it would    *)
(* have had relative to the new epoch, and of any two retained entries the *)
(* one with the smaller key before the rescale has the smaller key after   *)
(* it.                                                                     *)
(***************************************************************************)
C18_RescaleKeepsOrder ==
    (kind = "expdecay" /\ last.op = "Update" /\ last.rescaled /\ ~panicked) =>
        LET elapsed == last.t - last.epoch
            old == KeysOf(last.mid)
        IN  /\ BagOf(KeysOf(values)) =
                   BagOf([i \in DOMAIN old |-> KeyAtEpoch(old[i], elapsed)])
            /\ \A i, j \in DOMAIN old :
                   KeyLess(old[i], old[j]) =>
                       KeyLess(ScaleKey(old[i], elapsed),
                               ScaleKey(old[j], elapsed))

(***************************************************************************)
(* C19.  As claimed: after the arbiter services a mark or a tick, the      *)
(* cached rateMean is the lifetime count divided by the seconds elapsed    *)
(* since the meter started, for every (non-negative) count an int64 can    *)
(* hold: the product of the count with the nanoseconds per second that the *)
(* code divides by the elapsed nanoseconds is the product in full, not     *)
(* wrapped around; and computing it leaves the count as the mark made it.  *)
(***************************************************************************)
C19_RateMeanExact ==
    (wLast.op \in {"mark", "tick"} /\ NonNegative(wCount)) =>
        /\ wMean.sec = wElapsed
        /\ SignExtend(wMean.num) = FullMul(Wide(NsPerSec), wCount)
        /\ wCount = IF wLast.op = "mark" THEN WrapAdd(wLast.before, wLast.n)
                    ELSE wLast.before

====
